---- MODULE Spec2Model ----
(***************************************************************************)
(* Model of the reprfn attribute macro   (src/src/lib.rs).                 *)
(*                                                                         *)
(* One behaviour is one macro invocation: the attribute's meta list is     *)
(* folded by the closure handed to syn::meta::parser, the annotated item   *)
(* is parsed as an ItemFn, the mode is inferred and the output token       *)
(* stream is synthesised.                                                  *)
(*                                                                         *)
(* Option<T> is modelled as a sequence of length 0 (None) or 1 (Some).     *)
(* A token is a pair <<kind, text>>, kind "tok" for identifiers, keywords  *)
(* and punctuation, "lit" for string literals.  A token stream is a        *)
(* sequence of tokens.                                                     *)
(***************************************************************************)
EXTENDS Naturals, Sequences, FiniteSets

VARIABLES attr, item, pos, abi, name, feature, no_mangle, support_generics,
          mode, value, diag, input, inferred_mode, output, pc

vars == <<attr, item, pos, abi, name, feature, no_mangle, support_generics,
          mode, value, diag, input, inferred_mode, output, pc>>

\* Longest attribute list drawn from the meta pool.
MaxAttrs == 3
\* Longest list of metas following an abi key drawn from the registry candidates.
MaxTail == 1

None == <<>>
Some(x) == <<x>>

T(s) == <<"tok", s>>
L(s) == <<"lit", s>>

RECURSIVE Flatten(_)
Flatten(ss) == IF ss = <<>> THEN <<>> ELSE Head(ss) \o Flatten(Tail(ss))

Range(s) == {s[i] : i \in 1..Len(s)}

Contains(s, sub) ==
    \E i \in 1..(Len(s) + 1) :
        /\ i + Len(sub) - 1 <= Len(s)
        /\ SubSeq(s, i, i + Len(sub) - 1) = sub

EndsWith(s, sub) ==
    /\ Len(sub) <= Len(s)
    /\ SubSeq(s, Len(s) - Len(sub) + 1, Len(s)) = sub

(***************************************************************************)
(* ABI registry                                                            *)
(***************************************************************************)
ABIS ==
    << "Rust", "C", "C-unwind", "C-cmse-nonsecure-call", "C-cmse-nonsecure-entry", "cdecl", "rust-call",
       "stdcall", "stdcall-unwind", "fastcall", "vectorcall", "thiscall", "thiscall-unwind", "aapcs",
       "win64", "sysv64", "ptx-kernel", "msp430-interrupt", "x86-interrupt", "efiapi", "avr-interrupt",
       "avr-non-blocking-interrupt", "riscv-interrupt-m", "riscv-interrupt-s", "wasm", "system",
       "system-unwind", "rust-intrinsic", "platform-intrinsic", "unadjusted", "none" >>

valid_abi_skips_last(a) == \E i \in 1..(Len(ABIS) - 1) : ABIS[i] = a

valid_abi(a) == \E i \in 1..Len(ABIS) : ABIS[i] = a

Diag(kind, raw, expecting) == [kind |-> kind, raw |-> raw, expecting |-> expecting]

Ok(v) == [ok |-> TRUE, val |-> v, err |-> Diag("", "", <<>>)]
Err(d) == [ok |-> FALSE, val |-> "", err |-> d]

validate_abi(raw) ==
    IF valid_abi(raw)
    THEN Ok(raw)
    ELSE Err(Diag("Invalid ABI", raw, ABIS))

opt_lit_as_opt_val(opt) == IF opt = None THEN None ELSE Some(opt[1])

(***************************************************************************)
(* The attribute: a comma separated list of metas.  A meta is a path       *)
(* followed by nothing (has_eq = FALSE), by = and a string literal         *)
(* (lit = Some(..)), or by = and something that is not a string literal    *)
(* (lit = None).                                                           *)
(***************************************************************************)
Meta(path, has_eq, lit) == [path |-> path, has_eq |-> has_eq, lit |-> lit]
KV(path, v) == Meta(path, TRUE, Some(v))
Bare(path) == Meta(path, FALSE, None)
NonLit(path) == Meta(path, TRUE, None)

\* meta.value()?.parse::<syn::LitStr>()?
MetaValue(m) ==
    IF ~m.has_eq THEN Err(Diag("expected =", "", <<>>))
    ELSE IF m.lit = None THEN Err(Diag("expected string literal", "", <<>>))
    ELSE Ok(m.lit[1])

RustLike(check) ==
    /\ check # None
    /\ \/ check[1] = "Rust"
       \/ check[1] = "rust-call"
       \/ check[1] = "rust-intrinsic"

NoMangleOf(a) == ~RustLike(opt_lit_as_opt_val(a))

SupportGenericsOf_only_rust(a) ==
    LET check == opt_lit_as_opt_val(a) IN check # None /\ check[1] = "Rust"

SupportGenericsOf(a) == RustLike(opt_lit_as_opt_val(a))

OptUnlessNone_keeps_sentinel(v) == Some(v)

OptUnlessNone(v) == IF v = "none" THEN None ELSE Some(v)

Closure(a, n, f, nm, sg, md, v) ==
    [abi |-> a, name |-> n, feature |-> f, no_mangle |-> nm,
     support_generics |-> sg, mode |-> md, value |-> v]

InitClosure == Closure(None, None, None, TRUE, FALSE, None, None)

Step(st, err, consumed) == [st |-> st, err |-> err, consumed |-> consumed]

AbiKey(st, m) ==
    LET mv == MetaValue(m)
        r  == validate_abi(mv.val)
        a  == OptUnlessNone(r.val)
    IN  IF ~mv.ok THEN Step(st, Some(mv.err), FALSE)
        ELSE IF ~r.ok THEN Step(st, Some(r.err), TRUE)
        ELSE Step([st EXCEPT !.abi = a,
                             !.no_mangle = NoMangleOf(a),
                             !.support_generics = SupportGenericsOf(a),
                             !.value = Some(r.val)], None, TRUE)

NameKey(st, m) ==
    LET mv == MetaValue(m) IN
    IF ~mv.ok THEN Step(st, Some(mv.err), FALSE)
    ELSE Step([st EXCEPT !.name = OptUnlessNone(mv.val), !.value = Some(mv.val)], None, TRUE)

ModeOf(v) ==
    IF v = "none" THEN Ok(None)
    ELSE IF v = "import" THEN Ok(Some("Import"))
    ELSE IF v = "export" THEN Ok(Some("Export"))
    ELSE Err(Diag("invalid mode", v, <<"none", "import", "export">>))

\* value is bound to the literal before the literal is examined, so it is
\* bound also when the mode is refused; mode itself is then left alone.
ModeKey(st, m) ==
    LET mv == MetaValue(m)
        r  == ModeOf(mv.val)
    IN  IF ~mv.ok THEN Step(st, Some(mv.err), FALSE)
        ELSE IF ~r.ok THEN Step([st EXCEPT !.value = Some(mv.val)], Some(r.err), TRUE)
        ELSE Step([st EXCEPT !.mode = r.val, !.value = Some(mv.val)], None, TRUE)

FeatureKey(st, m) ==
    LET mv == MetaValue(m) IN
    IF ~mv.ok THEN Step(st, Some(mv.err), FALSE)
    ELSE Step([st EXCEPT !.feature = OptUnlessNone(mv.val), !.value = Some(mv.val)], None, TRUE)

\* The closure handed to syn::meta::parser: one call per meta.  The local
\* value belongs to the call: it is unbound until a branch binds it.
Logic(st, m) ==
    LET fresh == [st EXCEPT !.value = None] IN
    IF m.path = "abi" THEN AbiKey(fresh, m)
    ELSE IF m.path = "name" THEN NameKey(fresh, m)
    ELSE IF m.path = "mode" THEN ModeKey(fresh, m)
    ELSE IF m.path = "feature" THEN FeatureKey(fresh, m)
    ELSE Step(fresh, None, FALSE)

\* One iteration of the loop syn::meta::parser runs over the attribute:
\*     let path = input.call(parse_meta_path)?;
\*     logic(ParseNestedMeta { path, input })?;
\*     if input.is_empty() { return Ok(()) }
\*     input.parse::<Token![,]>()?;
\* The closure runs on the path, then the parser requires the end of input
\* or a comma.  Whatever the closure left unconsumed of the meta is met
\* where the comma is required.
NestedMeta(st, m) ==
    LET s == Logic(st, m) IN
    IF s.err # None THEN s
    ELSE IF m.has_eq /\ ~s.consumed THEN Step(s.st, Some(Diag("expected ,", "", <<>>)), FALSE)
    ELSE s

(***************************************************************************)
(* The annotated item.  For a function the fields are those destructured   *)
(* from syn::ItemFn, syn::Signature and syn::Generics; each is a token     *)
(* stream.  stmts is the statement sequence of the body block.             *)
(***************************************************************************)
ItemFn(attrs, vis, constness, unsafety, ident, lt, params, gt, inputs, variadic, ret, wh, stmts) ==
    [is_fn |-> TRUE, attrs |-> attrs, vis |-> vis, constness |-> constness,
     unsafety |-> unsafety, fn_token |-> <<T("fn")>>, ident |-> <<T(ident)>>,
     lt_token |-> lt, params |-> params, gt_token |-> gt, inputs |-> inputs,
     variadic |-> variadic, output |-> ret, where_clause |-> wh, stmts |-> stmts]

\* pub fn my_function() { return; }
MyFunction ==
    ItemFn(<<>>, <<T("pub")>>, <<>>, <<>>, "my_function", <<>>, <<>>, <<>>, <<>>, <<>>, <<>>, <<>>,
           <<T("return"), T(";")>>)

\* #[inline] pub unsafe fn stub(x: u8);  written with an empty block
Stub ==
    ItemFn(<<T("#"), T("["), T("inline"), T("]")>>, <<T("pub")>>, <<>>, <<T("unsafe")>>, "stub",
           <<>>, <<>>, <<>>, <<T("x"), T(":"), T("u8")>>, <<>>, <<>>, <<>>, <<>>)

\* pub fn id<T>(x: T) -> T where T: Copy { x }
GenericId ==
    ItemFn(<<>>, <<T("pub")>>, <<>>, <<>>, "id", <<T("<")>>, <<T("T")>>, <<T(">")>>,
           <<T("x"), T(":"), T("T")>>, <<>>, <<T("->"), T("T")>>,
           <<T("where"), T("T"), T(":"), T("Copy")>>, <<T("x")>>)

\* struct S;  (not a function)
NotAFn == [MyFunction EXCEPT !.is_fn = FALSE, !.fn_token = <<T("struct")>>, !.ident = <<T("S")>>,
                             !.vis = <<>>, !.stmts = <<>>]

Items == {MyFunction, Stub, GenericId, NotAFn}

Block(i) == <<T("{")>> \o i.stmts \o <<T("}")>>

\* syn::parse_macro_input!(item as syn::ItemFn)
ParseItemFn(i) ==
    IF i.is_fn THEN [ok |-> TRUE, val |-> i, err |-> Diag("", "", <<>>)]
    ELSE [ok |-> FALSE, val |-> i, err |-> Diag("expected fn", "", <<>>)]

\* syn::Error::to_compile_error: the only tokens returned on failure.
CompileError(d) ==
    <<T("::core::compile_error"), T("!"), T("{"), L(d.kind), L(d.raw)>>
        \o [k \in 1..Len(d.expecting) |-> L(d.expecting[k])] \o <<T("}")>>

(***************************************************************************)
(* Synthesis                                                               *)
(***************************************************************************)
AbiQuote_always_rust(a) == <<T("extern"), L("Rust")>>

AbiQuote(a) == IF a # None THEN <<T("extern"), L(a[1])>> ELSE <<T("extern"), L("Rust")>>

NameQuote(n, i) ==
    IF n # None THEN <<T("#"), T("["), T("export_name"), T("="), L(n[1]), T("]")>> ELSE <<>>

NoMangleTokens == <<T("#"), T("["), T("no_mangle"), T("]")>>

NoMangleQuote_inverted(nm) == IF nm THEN <<>> ELSE NoMangleTokens

NoMangleQuote(nm) == IF nm THEN NoMangleTokens ELSE <<>>

FeatureQuote(f) ==
    IF f # None
    THEN <<T("#"), T("["), T("cfg"), T("("), T("feature"), T("="), L(f[1]), T(")"), T("]")>>
    ELSE <<>>

InferMode_always_infers(md, i) == IF i.stmts = <<>> THEN "Import" ELSE "Export"

InferMode(md, i) ==
    IF md # None THEN md[1]
    ELSE IF i.stmts = <<>> THEN "Import"
    ELSE "Export"

GenericsHead(sg, i) == IF sg THEN i.lt_token \o i.params \o i.gt_token ELSE <<>>

WhereClause(sg, i) == IF sg THEN i.where_clause ELSE <<>>

ExportTokens(st, i) ==
    Flatten(<< i.attrs, FeatureQuote(st.feature), NameQuote(st.name, i), NoMangleQuote(st.no_mangle),
               i.vis, i.constness, i.unsafety, AbiQuote(st.abi), i.fn_token, i.ident,
               GenericsHead(st.support_generics, i),
               <<T("(")>>, i.inputs, i.variadic, <<T(")")>>, i.output,
               WhereClause(st.support_generics, i), Block(i) >>)

ImportTokens(st, i) ==
    Flatten(<< AbiQuote(st.abi), <<T("{")>>,
               i.attrs, FeatureQuote(st.feature), NameQuote(st.name, i),
               i.vis, i.fn_token, i.ident,
               GenericsHead(st.support_generics, i),
               <<T("(")>>, i.inputs, i.variadic, <<T(")")>>, i.output,
               WhereClause(st.support_generics, i), Block(i),
               <<T("}")>> >>)

Expanded(md, st, i) == IF md = "Export" THEN ExportTokens(st, i) ELSE ImportTokens(st, i)

(***************************************************************************)
(* The whole macro as a function of its two inputs.                        *)
(***************************************************************************)
Result(st, d, md, out) == [st |-> st, diag |-> d, inferred_mode |-> md, output |-> out]

RECURSIVE Fold(_, _)
Fold(st, metas) ==
    IF metas = <<>> THEN Step(st, None, TRUE)
    ELSE LET s == NestedMeta(st, Head(metas)) IN
         IF s.err # None THEN s ELSE Fold(s.st, Tail(metas))

Reprfn(metas, i) ==
    LET s == Fold(InitClosure, metas) IN
    IF s.err # None THEN Result(s.st, s.err, None, CompileError(s.err[1]))
    ELSE IF ~ParseItemFn(i).ok
         THEN Result(s.st, Some(ParseItemFn(i).err), None, CompileError(ParseItemFn(i).err))
    ELSE Result(s.st, None, Some(InferMode(s.st.mode, i)),
                Expanded(InferMode(s.st.mode, i), s.st, i))

(***************************************************************************)
(* Inputs                                                                  *)
(***************************************************************************)
MetaPool ==
    { KV("abi", "Rust"), KV("abi", "C"), KV("abi", "none"),
      KV("abi", "Pascal"), Bare("abi"),
      KV("name", "my_c_function"), KV("name", "none"), NonLit("name"),
      KV("mode", "export"), KV("mode", "import"), KV("mode", "none"), KV("mode", "both"),
      KV("feature", "ffi"), KV("feature", "none"),
      KV("link", "dylib") }

TailPool == { KV("name", "my_c_function"), KV("mode", "import"), KV("abi", "Rust"), Bare("link") }

Candidates == Range(ABIS) \cup {"Pascal", "c", "rust", "", "None"}

SeqsUpTo(S, n) == UNION { [1..k -> S] : k \in 0..n }

Current == Closure(abi, name, feature, no_mangle, support_generics, mode, value)

InitState ==
    /\ pos = 1
    /\ abi = None
    /\ name = None
    /\ feature = None
    /\ no_mangle = TRUE
    /\ support_generics = FALSE
    /\ mode = None
    /\ value = None
    /\ diag = None
    /\ input = None
    /\ inferred_mode = None
    /\ output = None
    /\ pc = "attr"

\* Every attribute of up to MaxAttrs metas of the pool, and every registry
\* candidate as the abi followed by up to MaxTail further metas.
Attrs ==
    SeqsUpTo(MetaPool, MaxAttrs)
        \cup { <<KV("abi", c)>> \o t : c \in Candidates, t \in SeqsUpTo(TailPool, MaxTail) }

Init ==
    /\ attr \in Attrs
    /\ item \in Items
    /\ InitState

(***************************************************************************)
(* Steps of one invocation                                                 *)
(***************************************************************************)
SetClosure(st) ==
    /\ abi' = st.abi
    /\ name' = st.name
    /\ feature' = st.feature
    /\ no_mangle' = st.no_mangle
    /\ support_generics' = st.support_generics
    /\ mode' = st.mode
    /\ value' = st.value

ParseNestedMeta_keeps_going ==
    /\ pc = "attr"
    /\ pos <= Len(attr)
    /\ LET s == NestedMeta(Current, attr[pos]) IN
       /\ SetClosure(s.st)
       /\ diag' = s.err
       /\ pos' = pos + 1
       /\ UNCHANGED <<output, pc>>
    /\ UNCHANGED <<attr, item, input, inferred_mode>>

\* One meta of the attribute goes through the closure; an error ends the
\* invocation with the diagnostic as the only output.
ParseNestedMeta ==
    /\ pc = "attr"
    /\ pos <= Len(attr)
    /\ LET s == NestedMeta(Current, attr[pos]) IN
       /\ SetClosure(s.st)
       /\ IF s.err # None
          THEN /\ diag' = s.err
               /\ output' = Some(CompileError(s.err[1]))
               /\ pc' = "done"
               /\ pos' = pos
          ELSE /\ pos' = pos + 1
               /\ UNCHANGED <<diag, output, pc>>
    /\ UNCHANGED <<attr, item, input, inferred_mode>>

\* The attribute is exhausted: the parser returns Ok.
ParserEnd ==
    /\ pc = "attr"
    /\ pos > Len(attr)
    /\ pc' = "item"
    /\ UNCHANGED <<attr, item, pos, abi, name, feature, no_mangle, support_generics,
                   mode, value, diag, input, inferred_mode, output>>

ParseItem ==
    /\ pc = "item"
    /\ LET r == ParseItemFn(item) IN
       IF r.ok
       THEN /\ input' = Some(r.val)
            /\ pc' = "infer"
            /\ UNCHANGED <<diag, output>>
       ELSE /\ diag' = Some(r.err)
            /\ output' = Some(CompileError(r.err))
            /\ pc' = "done"
            /\ UNCHANGED input
    /\ UNCHANGED <<attr, item, pos, abi, name, feature, no_mangle, support_generics,
                   mode, value, inferred_mode>>

Infer ==
    /\ pc = "infer"
    /\ inferred_mode' = Some(InferMode(mode, input[1]))
    /\ pc' = "expand"
    /\ UNCHANGED <<attr, item, pos, abi, name, feature, no_mangle, support_generics,
                   mode, value, diag, input, output>>

Expand ==
    /\ pc = "expand"
    /\ output' = Some(Expanded(inferred_mode[1], Current, input[1]))
    /\ pc' = "done"
    /\ UNCHANGED <<attr, item, pos, abi, name, feature, no_mangle, support_generics,
                   mode, value, diag, input, inferred_mode>>

Next ==
    \/ ParseNestedMeta
    \/ ParserEnd
    \/ ParseItem
    \/ Infer
    \/ Expand

Spec == Init /\ [][Next]_vars

TypeOK ==
    /\ pc \in {"attr", "item", "infer", "expand", "done"}
    /\ pos \in 1..(Len(attr) + 1)
    /\ no_mangle \in BOOLEAN
    /\ support_generics \in BOOLEAN
    /\ Len(abi) <= 1 /\ Len(name) <= 1 /\ Len(feature) <= 1 /\ Len(mode) <= 1
    /\ mode \in {None, Some("Export"), Some("Import")}
    /\ inferred_mode \in {None, Some("Export"), Some("Import")}

(***************************************************************************)
(* Vocabulary of the properties, stated on the inputs and the output       *)
(***************************************************************************)
RustFamily == {"Rust", "rust-call", "rust-intrinsic"}
KnownKeys == {"abi", "name", "mode", "feature"}

\* The literal given to the last occurrence of a key; None when absent.
LastValue(metas, key) ==
    LET I == {k \in 1..Len(metas) : metas[k].path = key} IN
    IF I = {} THEN None ELSE metas[CHOOSE k \in I : \A j \in I : j <= k].lit

Unset(v) == v = None \/ v = Some("none")

Finished == pc = "done" /\ diag = None

RemoveAt(metas, k) == SubSeq(metas, 1, k - 1) \o SubSeq(metas, k + 1, Len(metas))

UniqueKeys(metas) ==
    \A j, k \in 1..Len(metas) : metas[j].path = metas[k].path => j = k

\* What an invocation yields: the configuration, the flags, the resolved
\* mode, the diagnostic and the tokens returned.
Observable(st, d, md, out) ==
    [abi |-> st.abi, name |-> st.name, feature |-> st.feature, mode |-> st.mode,
     no_mangle |-> st.no_mangle, support_generics |-> st.support_generics,
     diag |-> d, inferred_mode |-> md, output |-> out]

Observed == Observable(Current, diag, inferred_mode, output)

ObservableOf(metas, i) ==
    LET r == Reprfn(metas, i) IN Observable(r.st, r.diag, r.inferred_mode, Some(r.output))

\* The convention literal following the extern keyword of the output.
DeclaredAbi(out) == out[(CHOOSE k \in 1..Len(out) : out[k] = T("extern")) + 1][2]

ExportNameTokens(n) == <<T("#"), T("["), T("export_name"), T("="), L(n), T("]")>>

HasGenerics(i) == i.params # <<>>

(***************************************************************************)
(* C1                                                                      *)
(***************************************************************************)
\* C1: the resolved mode is the configured mode when the mode field is set
\* to "export" or "import", whatever the body; when the field is unset
\* (absent or "none") it is Import for an empty statement sequence and
\* Export for a non-empty one.
C1_ModeResolution ==
    inferred_mode # None =>
        LET m == LastValue(attr, "mode") IN
        /\ m = Some("export") => inferred_mode = Some("Export")
        /\ m = Some("import") => inferred_mode = Some("Import")
        /\ Unset(m) /\ item.stmts = <<>> => inferred_mode = Some("Import")
        /\ Unset(m) /\ item.stmts # <<>> => inferred_mode = Some("Export")

C1_Witness ==
    /\ pc = "done"
    /\ LastValue(attr, "mode") = Some("import")
    /\ item.stmts # <<>>
    /\ inferred_mode = Some("Import")

(***************************************************************************)
(* C2                                                                      *)
(***************************************************************************)
\* C2: with a registry abi outside the Rust family and other than "none",
\* a name other than "none", the mode unset and a non-empty body, the mode
\* resolves to Export and the output is one function definition declared
\* under that convention, with #[export_name = N] and #[no_mangle], without
\* a generic parameter list or where clause, and with the original body.
C2_ForeignExport ==
    LET a == LastValue(attr, "abi")
        n == LastValue(attr, "name")
    IN  (/\ Finished
         /\ a # None /\ a[1] \notin RustFamily /\ a[1] # "none"
         /\ n # None /\ n[1] # "none"
         /\ Unset(LastValue(attr, "mode"))
         /\ item.stmts # <<>>)
        => /\ inferred_mode = Some("Export")
           /\ Contains(output[1], Flatten(<<item.vis, item.constness, item.unsafety,
                                            <<T("extern"), L(a[1])>>, <<T("fn")>>, item.ident,
                                            <<T("(")>>, item.inputs>>))
           /\ ~Contains(output[1], <<T("extern"), L(a[1]), T("{")>>)
           /\ Contains(output[1], ExportNameTokens(n[1]))
           /\ Contains(output[1], NoMangleTokens)
           /\ T("<") \notin Range(output[1])
           /\ T("where") \notin Range(output[1])
           /\ EndsWith(output[1], <<T(")")>> \o item.output \o <<T("{")>> \o item.stmts \o <<T("}")>>)

C2_Witness ==
    /\ Finished
    /\ LastValue(attr, "abi") = Some("C")
    /\ LastValue(attr, "name") = Some("my_c_function")
    /\ LastValue(attr, "mode") = None
    /\ item = GenericId
    /\ inferred_mode = Some("Export")

(***************************************************************************)
(* C3                                                                      *)
(***************************************************************************)
\* C3: in Import mode the declaration inside the foreign block is the
\* signature only; the body block of the input does not appear in the output.
C3_ImportHasNoBody ==
    (Finished /\ inferred_mode = Some("Import")) => ~Contains(output[1], Block(item))

(***************************************************************************)
(* C4                                                                      *)
(***************************************************************************)
\* C4: the flags follow the convention the output is declared under: for
\* Rust, rust-call and rust-intrinsic no_mangle is false and
\* support_generics is true, for every other one no_mangle is true and
\* support_generics is false; a generic declaration declared under "Rust"
\* keeps its generic parameter list and where clause.
C4_FlagsFollowDeclaredAbi ==
    Finished =>
        LET r == DeclaredAbi(output[1]) IN
        /\ r \in RustFamily => (~no_mangle /\ support_generics)
        /\ r \notin RustFamily => (no_mangle /\ ~support_generics)
        /\ (r = "Rust" /\ HasGenerics(item)) =>
              /\ Contains(output[1], item.ident \o item.lt_token \o item.params \o item.gt_token)
              /\ Contains(output[1], item.where_clause)

(***************************************************************************)
(* C5                                                                      *)
(***************************************************************************)
\* C5 as stated: in Export mode the output carries #[no_mangle] whenever
\* the mangling flag is false.
C5_DirectiveWhenFlagFalse ==
    (Finished /\ inferred_mode = Some("Export") /\ ~no_mangle)
        => Contains(output[1], NoMangleTokens)

DeclarationStart == Flatten(<<item.vis, item.constness, item.unsafety, <<T("extern")>>>>)

\* C5 amended: in Export mode #[no_mangle] stands in front of the declaration
\* whenever the mangling flag is true and is not attached when the flag is
\* false; the flag is false only when the configured abi is Rust, rust-call
\* or rust-intrinsic and true otherwise, also when no abi was configured.
C5_DirectiveWhenFlagTrue ==
    (Finished /\ inferred_mode = Some("Export")) =>
        /\ no_mangle <=> Contains(output[1], NoMangleTokens \o DeclarationStart)
        /\ ~no_mangle <=> (/\ LastValue(attr, "abi") # None
                           /\ LastValue(attr, "abi")[1] \in RustFamily)

C5_Witness ==
    /\ Finished
    /\ inferred_mode = Some("Export")
    /\ LastValue(attr, "abi") = Some("Rust")
    /\ ~no_mangle
    /\ ~Contains(output[1], NoMangleTokens)

(***************************************************************************)
(* C6                                                                      *)
(***************************************************************************)
\* The closure has just accepted meta m / has just failed on meta m.
JustAccepted(m) == pc = "attr" /\ pos > 1 /\ attr[pos - 1] = m
JustRejected(m) == pc = "done" /\ diag # None /\ pos <= Len(attr) /\ attr[pos] = m

\* C6: validate_abi returns the candidate unchanged exactly when it is one
\* of the 31 registry entries; any other candidate fails with the Invalid ABI
\* error that names the candidate and lists the 31 entries.
C6_ValidateAbi ==
    /\ Len(ABIS) = 31
    /\ Cardinality(Range(ABIS)) = 31
    /\ \A c \in Candidates :
          /\ c \in Range(ABIS) =>
                /\ ~JustRejected(KV("abi", c))
                /\ JustAccepted(KV("abi", c)) => value = Some(c)
          /\ c \notin Range(ABIS) =>
                /\ ~JustAccepted(KV("abi", c))
                /\ JustRejected(KV("abi", c)) =>
                      /\ diag[1].kind = "Invalid ABI"
                      /\ diag[1].raw = c
                      /\ diag[1].expecting = ABIS
                      /\ Contains(output[1], <<L("Invalid ABI"), L(c), L("Rust"), L("C")>>)
                      /\ EndsWith(output[1], <<L("unadjusted"), L("none"), T("}")>>)
                      /\ value = None

C6_Witness ==
    /\ JustRejected(KV("abi", "Pascal"))
    /\ pos = 1
    /\ diag[1].expecting = ABIS

(***************************************************************************)
(* C7                                                                      *)
(***************************************************************************)
\* A meta the configuration parser must refuse: an abi outside the registry,
\* a mode other than none/export/import, a recognised key without a string
\* literal value.
Refused(m) ==
    /\ m.path \in KnownKeys
    /\ \/ ~m.has_eq
       \/ m.lit = None
       \/ m.path = "abi" /\ m.lit[1] \notin Range(ABIS)
       \/ m.path = "mode" /\ m.lit[1] \notin {"none", "export", "import"}

\* C7: a failure ends the invocation with the diagnostic alone: the mode is
\* never inferred and no declaration is emitted; a configuration that must
\* be refused fails, and fails before the item is examined.
C7_FailuresShortCircuit ==
    /\ diag # None =>
          /\ pc = "done"
          /\ inferred_mode = None
          /\ output = Some(CompileError(diag[1]))
          /\ T("fn") \notin Range(output[1])
          /\ T("extern") \notin Range(output[1])
          /\ pos <= Len(attr) => input = None
    /\ (pc \notin {"attr"} /\ \E k \in 1..Len(attr) : Refused(attr[k])) =>
          /\ diag # None
          /\ diag[1].kind # "expected fn"
          /\ input = None
          /\ pos <= Len(attr)
    /\ (pc = "done" /\ ~item.is_fn) => diag # None

C7_Witness ==
    /\ pc = "done"
    /\ ~item.is_fn
    /\ pos = 2
    /\ attr[1] = KV("name", "my_c_function")
    /\ attr[2] = KV("mode", "both")
    /\ diag[1].kind = "invalid mode"
    /\ diag[1].raw = "both"
    /\ value = Some("both")
    /\ name = Some("my_c_function")

(***************************************************************************)
(* C8                                                                      *)
(***************************************************************************)
\* C8: when every key appears at most once, a recognised key given the value
\* "none" yields the same result as the attribute without that key.
C8_SentinelIsAbsence ==
    (pc = "done" /\ UniqueKeys(attr)) =>
        \A k \in 1..Len(attr) :
            (attr[k].path \in KnownKeys /\ attr[k].lit = Some("none"))
                => Observed = ObservableOf(RemoveAt(attr, k), item)

C8_Witness ==
    /\ Finished
    /\ UniqueKeys(attr)
    /\ Len(attr) = 3
    /\ attr[1] = KV("abi", "none")
    /\ attr[2] = KV("name", "none")
    /\ item = GenericId

(***************************************************************************)
(* C9                                                                      *)
(***************************************************************************)
\* C9: a key/value pair whose key is not abi, name, mode or feature raises
\* no error and leaves the result what it is without the pair.
C9_UnknownKeyIgnored ==
    pc = "done" =>
        \A k \in 1..Len(attr) :
            (attr[k].path \notin KnownKeys /\ attr[k].has_eq /\ attr[k].lit # None)
                => Observed = ObservableOf(RemoveAt(attr, k), item)

(***************************************************************************)
(* C10                                                                     *)
(***************************************************************************)
FlagsFollowStoredAbi ==
    /\ no_mangle <=> ~support_generics
    /\ support_generics <=> (abi # None /\ abi[1] \in RustFamily)

KeyEffect ==
    (pc = "attr" /\ pos <= Len(attr)) =>
        LET m == attr[pos] IN
        /\ m.path \in {"name", "mode", "feature"} =>
              UNCHANGED <<abi, no_mangle, support_generics>>
        /\ (m.path = "abi" /\ pc' = "done") =>
              UNCHANGED <<abi, no_mangle, support_generics>>
        /\ (m.path = "abi" /\ pc' = "attr") =>
              /\ abi' = (IF m.lit = Some("none") THEN None ELSE m.lit)
              /\ support_generics' = (m.lit[1] \in RustFamily)
              /\ no_mangle' = (m.lit[1] \notin RustFamily)

\* C10: throughout the fold over the configuration keys the two flags are
\* complementary and support_generics is true exactly when the stored abi is
\* Rust, rust-call or rust-intrinsic; name, mode and feature keys and a
\* rejected abi leave the flags and the stored abi alone, and an accepted abi
\* key sets them from its own value only.
C10_FlagsInvariant == []FlagsFollowStoredAbi /\ [][KeyEffect]_vars

C10_Witness ==
    /\ pc = "attr"
    /\ pos = 4
    /\ attr[1] = KV("abi", "Rust")
    /\ attr[2] = KV("abi", "C")
    /\ attr[3] = KV("abi", "Pascal") \/ attr[3] = KV("name", "my_c_function")
    /\ abi = Some("C")
    /\ no_mangle

====
